---- MODULE Spec2Model ----
(***************************************************************************)
(* Typed generational arena (src/allocator/arena.rs) and its Address       *)
(* handle (src/allocator/address.rs).                                      *)
(*                                                                         *)
(* data          the type registry: entity type -> LocationGroup           *)
(* freed_groups  Arena::freed_groups, the hashes of the destroyed groups   *)
(* stack         the Address values held in caller variables (a bag: two   *)
(*               Address values with equal fields are interchangeable)     *)
(* ref_counts    the Rc<RefCell<i16>> counters the addresses share         *)
(* dropping      progress of the destruction of the arena                  *)
(* deallocated   groups whose storage has been given back to the heap      *)
(* history       per counter, the strongest of allocate < copy < clone <   *)
(*               remove that has been applied to it                        *)
(* freed         the (type, index, generation) on which free took effect   *)
(* issued        the (type, index, generation) allocate has returned       *)
(* last          the operation that led to the state                       *)
(*                                                                         *)
(* Address values stored inside an entity are the entity's `fields`.       *)
(* Indexes are 0-based in the code and 1-based here (Vec against Seq).     *)
(***************************************************************************)
EXTENDS Integers, Sequences, FiniteSets, Bags, TLC

VARIABLES data, freed_groups, stack, ref_counts, dropping, deallocated,
          history, freed, issued, last

vars == <<data, freed_groups, stack, ref_counts, dropping, deallocated,
          history, freed, issued, last>>

(* ------------------------------ bounds --------------------------------- *)
MaxLocations == 2
MaxAddresses == 3
MaxFrees == 2
MaxEntity == 2
MaxFields == 1
MaxDebt == 2

(* ------------------------------ universe ------------------------------- *)
Types == {"X", "Y"}
RcIds == 1 .. MaxAddresses
\* the caller's entity types, shaped as in the demo: X carries a payload, Y
\* does not, and both hold Address<X> fields
Entities(t) == IF t = "X" THEN 1 .. MaxEntity ELSE {1}
Linked == {"X"}
\* Option<&T>: None, and Some of the entity's payload
Absent == <<>>
Some(value) == <<value>>
NoDrop == [ty |-> "none", index |-> 0]

Range(s) == {s[k] : k \in 1 .. Len(s)}
Count(s, x) == Cardinality({k \in 1 .. Len(s) : s[k] = x})

\* TypeId hashed with DefaultHasher: one 64-bit value per type
TypeIdHash(t) == CASE t = "X" -> 11 [] t = "Y" -> 22

\* what a read of freed heap memory may give besides the old content
StaleRead == 0

\* i16 arithmetic of the shared counter (wrapping, as in a release build)
AddI16(v, d) == ((v + d + 32768) % 65536) - 32768

(* ------------------------------ helpers -------------------------------- *)
LocationGroup_new(t) ==
    [locations |-> <<>>, free_indexes |-> <<>>, type_id_hash |-> TypeIdHash(t)]

\* the places (type, index, field) where entities of d hold an Address value
Places(d) == UNION {UNION {{<<t, i, k>> : k \in 1 .. Len(d[t].locations[i].entity.fields)} :
                              i \in 1 .. Len(d[t].locations)} : t \in DOMAIN d}
Stored(d) == {d[p[1]].locations[p[2]].entity.fields[p[3]] : p \in Places(d)}
StoredCount(d) == Cardinality(Places(d))

\* every Address value that exists
Addresses == BagToSet(stack) \cup Stored(data)
AddressCount == BagCardinality(stack) + StoredCount(data)

\* an allocate that takes the first counter, in use or not
NewRc_first(rcs) == 1

NewRc(rcs) == CHOOSE i \in RcIds \ DOMAIN rcs : \A j \in RcIds \ DOMAIN rcs : i <= j

\* the entity values a caller can build from the addresses it holds
FieldChoices == UNION {{s \in [1 .. k -> {a \in BagToSet(stack) : a.ty \in Linked}] :
                          \A x \in Range(s) : Count(s, x) <= CopiesIn(x, stack)} :
                       k \in 0 .. MaxFields}
RECURSIVE SeqToBag(_)
SeqToBag(s) == IF s = <<>> THEN EmptyBag ELSE SetToBag({Head(s)}) (+) SeqToBag(Tail(s))

\* the operation that led to the state: the Address it acted on or returned,
\* the value it stored, and the history of its counter as the operation found it
Last(op, address, value, hist) ==
    [op |-> op, address |-> address, value |-> value, history |-> hist]

\* the pieces of the state an operation threads through its calls
State == [data |-> data, ref_counts |-> ref_counts, freed |-> freed]

(* ------------------------------ Arena ---------------------------------- *)
Triple(address) == <<address.ty, address.index, address.generation>>

\* a reuse that starts the location's generations over
Overwrite_resets_generation(location, v) == [generation |-> 0, entity |-> v]

\* a reuse that leaves the old payload in the location
Overwrite_keeps_entity(location, v) == [location EXCEPT !.entity.fields = v.fields]

\* a reuse that raises the generation of the location
Overwrite_raises_generation(location, v) ==
    [generation |-> location.generation + 1, entity |-> v]

\* allocate, Some(idx): location.entity = v
Overwrite(location, v) == [location EXCEPT !.entity = v]

\* a get that also looks the group up in freed_groups
get_checks_freed_groups(d, address) ==
    LET list == d[address.ty].locations
        item == list[address.index]
    IN  IF d[address.ty].type_id_hash \in Range(freed_groups) THEN Absent
        ELSE IF item.generation = address.generation THEN Some(item.entity.value)
        ELSE Absent

\* Arena::get
get(d, address) ==
    LET list == d[address.ty].locations
        item == list[address.index]
    IN  IF item.generation = address.generation THEN Some(item.entity.value) ELSE Absent

\* Arena::get_mut
get_mut(d, address) ==
    LET list == d[address.ty].locations
        item == list[address.index]
    IN  IF item.generation = address.generation THEN Some(item.entity.value) ELSE Absent

\* a free that pushes the index and leaves the generation as it is
free_keeps_generation(st, address, hash) ==
    LET group == st.data[address.ty]
    IN  IF hash \in Range(freed_groups)
        THEN st
        ELSE LET location == group.locations[address.index]
             IN  IF location.generation = address.generation
                 THEN [st EXCEPT
                         !.data[address.ty].free_indexes = Append(@, address.index),
                         !.freed = @ \cup {Triple(address)}]
                 ELSE st

\* a free that finds the location by its index alone, in every group
free_ignores_type(st, address, hash) ==
    LET hit == {t \in DOMAIN st.data :
                   /\ address.index <= Len(st.data[t].locations)
                   /\ st.data[t].locations[address.index].generation = address.generation}
    IN  IF hash \in Range(freed_groups)
        THEN st
        ELSE [st EXCEPT
                !.data = [t \in DOMAIN st.data |->
                            IF t \in hit
                            THEN [st.data[t] EXCEPT
                                    !.free_indexes = Append(@, address.index),
                                    !.locations[address.index].generation = @ + 1]
                            ELSE st.data[t]],
                !.freed = @ \cup {<<t, address.index, address.generation>> : t \in hit}]

\* a free that pushes the index before it compares the generations
free_pushes_unchecked(st, address, hash) ==
    LET group == st.data[address.ty]
    IN  IF hash \in Range(freed_groups)
        THEN st
        ELSE LET location == group.locations[address.index]
                 st1 == [st EXCEPT
                           !.data[address.ty].free_indexes = Append(@, address.index)]
             IN  IF location.generation = address.generation
                 THEN [st1 EXCEPT
                         !.data[address.ty].locations[address.index].generation = @ + 1,
                         !.freed = @ \cup {Triple(address)}]
                 ELSE st1

\* a free that takes every generation up to the location's for a match
free_compares_at_least(st, address, hash) ==
    LET group == st.data[address.ty]
    IN  IF hash \in Range(freed_groups)
        THEN st
        ELSE LET location == group.locations[address.index]
             IN  IF location.generation >= address.generation
                 THEN [st EXCEPT
                         !.data[address.ty].free_indexes = Append(@, address.index),
                         !.data[address.ty].locations[address.index].generation = @ + 1,
                         !.freed = @ \cup {Triple(address)}]
                 ELSE st

\* a free that also matches the generation before the location's
free_matches_older(st, address, hash) ==
    LET group == st.data[address.ty]
    IN  IF hash \in Range(freed_groups)
        THEN st
        ELSE LET location == group.locations[address.index]
             IN  IF location.generation \in {address.generation, address.generation + 1}
                 THEN [st EXCEPT
                         !.data[address.ty].free_indexes = Append(@, address.index),
                         !.data[address.ty].locations[address.index].generation = @ + 1,
                         !.freed = @ \cup {Triple(address)}]
                 ELSE st

\* a free that does not compare the generations
free_unchecked(st, address, hash) ==
    LET group == st.data[address.ty]
    IN  IF hash \in Range(freed_groups)
        THEN st
        ELSE [st EXCEPT
                !.data[address.ty].free_indexes = Append(@, address.index),
                !.data[address.ty].locations[address.index].generation = @ + 1,
                !.freed = @ \cup {Triple(address)}]

\* a free that takes the last location out of the group instead of recycling it
free_removes_location(st, address, hash) ==
    LET group == st.data[address.ty]
    IN  IF hash \in Range(freed_groups)
        THEN st
        ELSE LET location == group.locations[address.index]
             IN  IF location.generation = address.generation
                 THEN IF address.index = Len(group.locations)
                      THEN [st EXCEPT
                              !.data[address.ty].locations = SubSeq(@, 1, Len(@) - 1),
                              !.freed = @ \cup {Triple(address)}]
                      ELSE [st EXCEPT
                              !.data[address.ty].free_indexes = Append(@, address.index),
                              !.data[address.ty].locations[address.index].generation = @ + 1,
                              !.freed = @ \cup {Triple(address)}]
                 ELSE st

\* a free that pushes the index twice
free_pushes_twice(st, address, hash) ==
    LET group == st.data[address.ty]
    IN  IF hash \in Range(freed_groups)
        THEN st
        ELSE LET location == group.locations[address.index]
             IN  IF location.generation = address.generation
                 THEN [st EXCEPT
                         !.data[address.ty].free_indexes =
                             Append(Append(@, address.index), address.index),
                         !.data[address.ty].locations[address.index].generation = @ + 1,
                         !.freed = @ \cup {Triple(address)}]
                 ELSE st

\* a free that empties the entity of the location it frees
free_clears_entity(st, address, hash) ==
    LET group == st.data[address.ty]
    IN  IF hash \in Range(freed_groups)
        THEN st
        ELSE LET location == group.locations[address.index]
             IN  IF location.generation = address.generation
                 THEN [st EXCEPT
                         !.data[address.ty].free_indexes = Append(@, address.index),
                         !.data[address.ty].locations[address.index].generation = @ + 1,
                         !.data[address.ty].locations[address.index].entity.fields = <<>>,
                         !.freed = @ \cup {Triple(address)}]
                 ELSE st

\* Arena::free; hash is what the read of group.type_id_hash gave
free(st, address, hash) ==
    LET group == st.data[address.ty]
    IN  IF hash \in Range(freed_groups)
        THEN st
        ELSE LET location == group.locations[address.index]
             IN  IF location.generation = address.generation
                 THEN [st EXCEPT
                         !.data[address.ty].free_indexes = Append(@, address.index),
                         !.data[address.ty].locations[address.index].generation = @ + 1,
                         !.freed = @ \cup {Triple(address)}]
                 ELSE st

(* ------------------------------ Address -------------------------------- *)
\* a drop that looks at the counter before it lowers it
drop_checks_before_decrement(st, address, hash) ==
    LET v == st.ref_counts[address.ref_count]
        st1 == [st EXCEPT !.ref_counts[address.ref_count] = AddI16(v, -1)]
    IN  IF v = 0 THEN free(st1, address, hash) ELSE st1

\* a drop that frees when one owner is left
drop_off_by_one(st, address, hash) ==
    LET v == AddI16(st.ref_counts[address.ref_count], -1)
        st1 == [st EXCEPT !.ref_counts[address.ref_count] = v]
    IN  IF v = 1 THEN free(st1, address, hash) ELSE st1

\* impl Drop for Address
drop(st, address, hash) ==
    LET v == AddI16(st.ref_counts[address.ref_count], -1)
        st1 == [st EXCEPT !.ref_counts[address.ref_count] = v]
    IN  IF v = 0 THEN free(st1, address, hash) ELSE st1

\* an overwrite that forgets the old entity instead of destroying it
DropFields_forgets(st, fields) == st

\* drop glue of an entity: its Address fields go in declaration order
RECURSIVE DropFields(_, _)
DropFields(st, fields) ==
    IF fields = <<>> THEN st
    ELSE DropFields(drop(st, Head(fields), st.data[Head(fields).ty].type_id_hash),
                    Tail(fields))

\* an Rc goes away with the last Address that owns it
Owned(d, stk) == {a.ref_count : a \in BagToSet(stk) \cup Stored(d)}
Collect(f, d, stk) == [c \in DOMAIN f \cap Owned(d, stk) |-> f[c]]

\* the explored runs: at most MaxLocations locations and MaxFrees frees in all
LocationCount(d) == Cardinality(UNION {{<<t, i>> : i \in 1 .. Len(d[t].locations)} : t \in DOMAIN d})
FreesBounded(st) == Cardinality(st.freed) <= MaxFrees

\* clone() followed by a destruction lowers a counter without limit
CountsBounded(rcs) == \A c \in DOMAIN rcs : rcs[c] >= -MaxDebt

Running == freed_groups = <<>> /\ dropping = NoDrop

(* ------------------------------ operations ----------------------------- *)
\* Arena::allocate::<t>(v) where the entity v holds the addresses fs
Allocate(t, value, fs) ==
    /\ Running
    /\ LET st0 == IF t \in DOMAIN data THEN State
                  ELSE [State EXCEPT !.data = [u \in DOMAIN data \cup {t} |->
                            IF u = t THEN LocationGroup_new(t) ELSE data[u]]]
           group == st0.data[t]
           v == [value |-> value, fields |-> fs]
           reuse == group.free_indexes # <<>>
           idx == group.free_indexes[Len(group.free_indexes)]
           index == IF reuse THEN idx ELSE Len(group.locations) + 1
           generation == IF reuse THEN group.locations[idx].generation ELSE 0
           old == IF reuse THEN group.locations[idx].entity.fields ELSE <<>>
           \* pop, then location.entity = v destroys the old entity
           st1 == IF reuse
                  THEN [st0 EXCEPT !.data[t].free_indexes = SubSeq(@, 1, Len(@) - 1),
                                   !.data[t].locations[idx] = Overwrite(@, v)]
                  ELSE [st0 EXCEPT !.data[t].locations =
                                       Append(@, [generation |-> generation, entity |-> v])]
           st2 == DropFields(st1, old)
           stk == stack (-) SeqToBag(fs)
           rcs == Collect(st2.ref_counts, st2.data, stk)
           rc == NewRc(rcs)
           address == [ty |-> t, index |-> index, generation |-> generation,
                       ref_count |-> rc]
       IN  /\ reuse \/ LocationCount(data) < MaxLocations
           /\ AddressCount - Len(old) < MaxAddresses
           /\ FreesBounded(st2)
           /\ CountsBounded(rcs)
           /\ data' = st2.data
           /\ stack' = stk (+) SetToBag({address})
           /\ ref_counts' = [c \in DOMAIN rcs \cup {rc} |-> IF c = rc THEN 1 ELSE rcs[c]]
           /\ history' = [c \in DOMAIN rcs \cup {rc} |->
                             IF c = rc THEN "allocate"
                             ELSE history[c]]
           /\ freed' = st2.freed
           /\ issued' = issued \cup {<<t, index, generation>>}
           /\ last' = Last("allocate", address, value, "none")
    /\ UNCHANGED <<freed_groups, dropping, deallocated>>

\* a copy that gives the new Address a counter of its own
Copy_fresh_counter(self) ==
    /\ Running
    /\ BagIn(self, stack)
    /\ AddressCount < MaxAddresses
    /\ LET rc == NewRc(ref_counts)
       IN  /\ ref_counts' = [c \in DOMAIN ref_counts \cup {rc} |->
                                IF c = rc THEN 1 ELSE ref_counts[c]]
           /\ stack' = stack (+) SetToBag({[self EXCEPT !.ref_count = rc]})
           /\ history' = [c \in DOMAIN history \cup {rc} |->
                             IF c = rc THEN "copy" ELSE history[c]]
    /\ last' = Last("copy", self, 0, history[self.ref_count])
    /\ UNCHANGED <<data, freed_groups, dropping, deallocated, freed, issued>>

\* a copy that shares the counter and does not count itself
Copy_forgets_count(self) ==
    /\ Running
    /\ BagIn(self, stack)
    /\ AddressCount < MaxAddresses
    /\ stack' = stack (+) SetToBag({self})
    /\ history' = [history EXCEPT ![self.ref_count] = IF @ = "allocate" THEN "copy" ELSE @]
    /\ last' = Last("copy", self, 0, history[self.ref_count])
    /\ UNCHANGED <<data, freed_groups, dropping, deallocated, ref_counts, freed, issued>>

\* Address::copy
Copy(self) ==
    /\ Running
    /\ BagIn(self, stack)
    /\ AddressCount < MaxAddresses
    /\ ref_counts' = [ref_counts EXCEPT ![self.ref_count] = AddI16(@, 1)]
    /\ stack' = stack (+) SetToBag({self})
    /\ history' = [history EXCEPT ![self.ref_count] = IF @ = "allocate" THEN "copy" ELSE @]
    /\ last' = Last("copy", self, 0, history[self.ref_count])
    /\ UNCHANGED <<data, freed_groups, dropping, deallocated, freed, issued>>

\* #[derive(Clone)]: every field cloned, Rc::clone shares the counter
Clone(self) ==
    /\ Running
    /\ BagIn(self, stack)
    /\ AddressCount < MaxAddresses
    /\ stack' = stack (+) SetToBag({self})
    /\ history' = [history EXCEPT ![self.ref_count] = IF @ = "remove" THEN @ ELSE "clone"]
    /\ last' = Last("clone", self, 0, history[self.ref_count])
    /\ UNCHANGED <<data, freed_groups, dropping, deallocated, ref_counts, freed, issued>>

\* an Address in a caller variable goes out of scope
Drop(self) ==
    /\ Running
    /\ BagIn(self, stack)
    /\ LET st == drop(State, self, data[self.ty].type_id_hash)
           stk == stack (-) SetToBag({self})
           rcs == Collect(st.ref_counts, st.data, stk)
       IN  /\ FreesBounded(st)
           /\ CountsBounded(rcs)
           /\ data' = st.data
           /\ stack' = stk
           /\ ref_counts' = rcs
           /\ history' = Collect(history, st.data, stk)
           /\ freed' = st.freed
           /\ last' = Last("drop", self, 0, history[self.ref_count])
    /\ UNCHANGED <<freed_groups, dropping, deallocated, issued>>

\* Address::remove
Remove(self) ==
    /\ Running
    /\ BagIn(self, stack)
    /\ LET st1 == [State EXCEPT !.ref_counts[self.ref_count] = -1]
           st == free(st1, self, data[self.ty].type_id_hash)
       IN  /\ FreesBounded(st)
           /\ data' = st.data
           /\ ref_counts' = st.ref_counts
           /\ history' = [history EXCEPT ![self.ref_count] = "remove"]
           /\ freed' = st.freed
           /\ last' = Last("remove", self, 0, history[self.ref_count])
    /\ UNCHANGED <<stack, freed_groups, dropping, deallocated, issued>>

(* ------------------------ destruction of the arena --------------------- *)
\* what the read of group.type_id_hash gives: the group of a destroyed
\* LocationGroup is a dangling reference into freed heap memory
HashRead(t) == IF t \in deallocated THEN {data[t].type_id_hash, StaleRead}
               ELSE {data[t].type_id_hash}

\* a destruction of the group that does not record its hash
GroupDrop_unrecorded(t) ==
    /\ dropping = NoDrop
    /\ stack = EmptyBag
    /\ t \in DOMAIN data
    /\ t \notin deallocated
    /\ dropping' = [ty |-> t, index |-> 1]
    /\ last' = Last("group_drop", NoDrop, 0, "none")
    /\ UNCHANGED <<data, stack, freed_groups, ref_counts, deallocated, history, freed, issued>>

\* impl Drop for LocationGroup, called when the arena's map drops the group.
\* The arena outlives the addresses in caller variables (SAFETY comments).
GroupDrop(t) ==
    /\ dropping = NoDrop
    /\ stack = EmptyBag
    /\ t \in DOMAIN data
    /\ t \notin deallocated
    /\ freed_groups' = Append(freed_groups, data[t].type_id_hash)
    /\ dropping' = [ty |-> t, index |-> 1]
    /\ last' = Last("group_drop", NoDrop, 0, "none")
    /\ UNCHANGED <<data, stack, ref_counts, deallocated, history, freed, issued>>

\* drop glue of group.locations: the next Address of the entity being destroyed
FieldDrop ==
    /\ dropping # NoDrop
    /\ dropping.index <= Len(data[dropping.ty].locations)
    /\ LET t == dropping.ty
           i == dropping.index
           fields == data[t].locations[i].entity.fields
       IN  /\ fields # <<>>
           /\ \E hash \in HashRead(Head(fields).ty) :
                LET st0 == [State EXCEPT !.data[t].locations[i].entity.fields = Tail(fields)]
                    st == drop(st0, Head(fields), hash)
                    rcs == Collect(st.ref_counts, st.data, stack)
                IN  /\ FreesBounded(st)
                    /\ CountsBounded(rcs)
                    /\ data' = st.data
                    /\ ref_counts' = rcs
                    /\ history' = Collect(history, st.data, stack)
                    /\ freed' = st.freed
                    /\ last' = Last("field_drop", Head(fields), 0,
                                     history[Head(fields).ref_count])
    /\ UNCHANGED <<stack, freed_groups, dropping, deallocated, issued>>

\* drop glue of group.locations: the entity has no Address left, on to the next
LocationDrop ==
    /\ dropping # NoDrop
    /\ dropping.index <= Len(data[dropping.ty].locations)
    /\ data[dropping.ty].locations[dropping.index].entity.fields = <<>>
    /\ dropping' = [dropping EXCEPT !.index = @ + 1]
    /\ last' = Last("location_drop", NoDrop, 0, "none")
    /\ UNCHANGED <<data, stack, freed_groups, ref_counts, deallocated, history, freed, issued>>

\* the Box of the group is deallocated; the map goes on to its next group
GroupDealloc ==
    /\ dropping # NoDrop
    /\ dropping.index > Len(data[dropping.ty].locations)
    /\ deallocated' = deallocated \cup {dropping.ty}
    /\ dropping' = NoDrop
    /\ last' = Last("group_dealloc", NoDrop, 0, "none")
    /\ UNCHANGED <<data, stack, freed_groups, ref_counts, history, freed, issued>>

\* Arena::new
Init ==
    /\ data = <<>>
    /\ freed_groups = <<>>
    /\ stack = EmptyBag
    /\ ref_counts = <<>>
    /\ dropping = NoDrop
    /\ deallocated = {}
    /\ history = <<>>
    /\ freed = {}
    /\ issued = {}
    /\ last = Last("new", NoDrop, 0, "none")

Next ==
    \/ \E t \in Types : \E value \in Entities(t), fs \in FieldChoices : Allocate(t, value, fs)
    \/ \E self \in BagToSet(stack) : Copy(self)
    \/ \E self \in BagToSet(stack) : Clone(self)
    \/ \E self \in BagToSet(stack) : Drop(self)
    \/ \E self \in BagToSet(stack) : Remove(self)
    \/ \E t \in Types : GroupDrop(t)
    \/ FieldDrop
    \/ LocationDrop
    \/ GroupDealloc

Spec == Init /\ [][Next]_vars

(* ------------------------ the width of the counter --------------------- *)
\* the largest value of the i16 counter
I16Max == 32767
\* how many Address values beyond I16Max the runs below go
MaxBeyond == 2

\* Address::copy, for the runs in which one Address is copied again and again
CopyMany(self) ==
    /\ Running
    /\ BagIn(self, stack)
    /\ BagToSet(stack) = {self}
    /\ Stored(data) = {}
    /\ BagCardinality(stack) < I16Max + MaxBeyond
    /\ ref_counts' = [ref_counts EXCEPT ![self.ref_count] = AddI16(@, 1)]
    /\ stack' = stack (+) SetToBag({self})
    /\ history' = [history EXCEPT ![self.ref_count] = IF @ = "allocate" THEN "copy" ELSE @]
    /\ last' = Last("copy", self, 0, history[self.ref_count])
    /\ UNCHANGED <<data, freed_groups, dropping, deallocated, freed, issued>>

\* one entity is allocated, its Address is copied and the copies are destroyed
NextWidth ==
    \/ \E t \in Types : \E value \in Entities(t) : data = <<>> /\ Allocate(t, value, <<>>)
    \/ \E self \in BagToSet(stack) : CopyMany(self)
    \/ \E self \in BagToSet(stack) : Drop(self)

SpecWidth == Init /\ [][NextWidth]_vars

(* ------------------------------ properties ----------------------------- *)
Generation(d, t, i) == d[t].locations[i].generation

\* C1 (stale detection): once free has taken effect on the (type, index,
\* generation) of an address, get and get_mut of that address are absent in
\* every state, however often the index has been reused since.
StaleDetection ==
    \A a \in Addresses :
        Triple(a) \in freed => get(data, a) = Absent /\ get_mut(data, a) = Absent

\* an address that was freed and whose index has been reused twice since
StaleAfterReuse ==
    \E a \in Addresses :
        /\ Triple(a) \in freed
        /\ <<a.ty, a.index, a.generation + 1>> \in issued
        /\ <<a.ty, a.index, a.generation + 2>> \in issued

\* C2 (generation monotonicity): no step lowers the generation of a location,
\* and the generation allocate returns for an index is greater than every
\* generation it returned for that index before.
GenerationMonotonicity ==
    [][/\ \A t \in DOMAIN data : \A i \in 1 .. Len(data[t].locations) :
             Generation(data', t, i) >= Generation(data, t, i)
       /\ last'.op = "allocate" =>
             \A tr \in issued :
                 (tr[1] = last'.address.ty /\ tr[2] = last'.address.index)
                     => tr[3] < last'.address.generation]_vars

\* allocate has returned the same index for the third time
IssuedThrice ==
    /\ last.op = "allocate"
    /\ {tr \in issued : tr[1] = last.address.ty /\ tr[2] = last.address.index}
          = {<<last.address.ty, last.address.index, g>> : g \in 0 .. 2}

\* C3 (reuse correctness): an allocate that reuses a freed index returns the
\* generation one above the generation that was freed there last, and get and
\* get_mut of the returned address give the value just stored.
ReuseCorrectness ==
    [][(/\ last'.op = "allocate"
        /\ last'.address.ty \in DOMAIN data
        /\ data[last'.address.ty].free_indexes # <<>>)
       => LET a == last'.address
              stk == data[a.ty].free_indexes
          IN  /\ a.index = stk[Len(stk)]
              /\ <<a.ty, a.index, a.generation - 1>> \in freed
              /\ \A tr \in freed : (tr[1] = a.ty /\ tr[2] = a.index) => tr[3] < a.generation
              /\ get(data', a) = Some(last'.value)
              /\ get_mut(data', a) = Some(last'.value)]_vars

\* a reused location whose payload was replaced by a different one
ReusedWithNewValue ==
    /\ last.op = "allocate"
    /\ last.address.generation = 1
    /\ get(data, last.address) = Some(last.value)
    /\ \E a \in Addresses : /\ a.ty = last.address.ty /\ a.index = last.address.index
                            /\ a.generation = 0

Clean(h) == h \in {"allocate", "copy"}
TornDown(t) == t \in DOMAIN data /\ data[t].type_id_hash \in Range(freed_groups)

\* the step frees the location of address a, once
FreedOnce(a) ==
    /\ Triple(a) \notin freed
    /\ Triple(a) \in freed'
    /\ Generation(data', a.ty, a.index) = a.generation + 1
    /\ Count(data[a.ty].free_indexes, a.index) = 0
    /\ Count(data'[a.ty].free_indexes, a.index) = 1

\* the step destroys the last Address value with the triple of a
LastDestroyed(a) == \A b \in Addresses' : Triple(b) # Triple(a)

\* C4 as claimed (reference-count symmetry): whenever the last of the
\* copies made with copy() is destroyed, and remove() was not called, that
\* step frees the location exactly once.
ReleasedOnceAlways ==
    [][\A a \in Addresses :
          (Clean(history[a.ref_count]) /\ LastDestroyed(a)) => FreedOnce(a)]_vars

\* C4 as amended: the same, provided the group of the location has not been
\* torn down when the last copy is destroyed.
ReleasedOnce ==
    [][\A a \in Addresses :
          (Clean(history[a.ref_count]) /\ LastDestroyed(a) /\ ~TornDown(a.ty))
              => FreedOnce(a)]_vars

\* the last of several copies has just gone out of scope and freed the location
AllCopiesDropped ==
    /\ last.op = "drop"
    /\ last.history = "copy"
    /\ \A b \in Addresses : Triple(b) # Triple(last.address)
    /\ Triple(last.address) \in freed
    /\ Generation(data, last.address.ty, last.address.index) = last.address.generation + 1

\* C5 (force-free supersedes sharing): after remove() every address that
\* shares the counter is stale; until the index is reused the generation is
\* one above theirs and the index is on the free stack once, whatever
\* happens to the remaining copies.
ForceFree ==
    \A a \in Addresses :
        history[a.ref_count] = "remove" =>
            /\ get(data, a) = Absent
            /\ get_mut(data, a) = Absent
            /\ Triple(a) \in freed
            /\ Count(data[a.ty].free_indexes, a.index) <= 1
            /\ <<a.ty, a.index, a.generation + 1>> \notin issued =>
                  /\ Generation(data, a.ty, a.index) = a.generation + 1
                  /\ Count(data[a.ty].free_indexes, a.index) = 1

\* a sibling of a removed address has been destroyed and others remain
SiblingDroppedAfterRemove ==
    /\ last.op = "drop"
    /\ last.history = "remove"
    /\ last.address \in Addresses
    /\ ref_counts[last.address.ref_count] = -2
    /\ Generation(data, last.address.ty, last.address.index) = last.address.generation + 1

\* C6 as claimed (last-owner release): while an address sharing the counter
\* exists and remove() was not called, the location is not freed and get
\* returns the entity.
HeldWhileShared ==
    \A a \in Addresses :
        history[a.ref_count] # "remove" =>
            Triple(a) \notin freed /\ get(data, a) # Absent

\* C6 as amended: the same for the addresses made by allocate and copy(); a
\* clone() shares the counter without being counted.
HeldWhileCounted ==
    \A a \in Addresses :
        (Clean(history[a.ref_count]) /\ a.ty \notin deallocated) =>
            /\ Triple(a) \notin freed
            /\ get(data, a) = Some(data[a.ty].locations[a.index].entity.value)

\* one of several copies has gone out of scope and the others are valid
CopyOutlivesCopy ==
    /\ last.op = "drop"
    /\ last.history = "copy"
    /\ last.address \in Addresses
    /\ get(data, last.address) # Absent

\* the step is an allocate that reuses a location whose entity holds an
\* Address of type t
OverwritesHolderOf(t) ==
    /\ last'.op = "allocate"
    /\ last'.address.ty \in DOMAIN data
    /\ data[last'.address.ty].free_indexes # <<>>
    /\ \E a \in Range(data[last'.address.ty].locations[last'.address.index].entity.fields) :
          a.ty = t

\* C7 as claimed (heterogeneous isolation): an allocate, copy, drop or remove
\* of one type leaves the group of every other type as it was, and the valid
\* addresses of the other type valid.
Isolation ==
    [][\A t \in DOMAIN data :
          (last'.op \in {"allocate", "copy", "drop", "remove"} /\ last'.address.ty # t)
              => /\ data'[t] = data[t]
                 /\ \A b \in Addresses :
                       (b.ty = t /\ get(data, b) # Absent) => get(data', b) # Absent]_vars

\* C7 as amended: the same, except for an allocate that reuses a location
\* whose old entity holds an address of the other type: the old entity is
\* destroyed with its addresses, and that can free a location of the other type.
IsolationButStored ==
    [][\A t \in DOMAIN data :
          (/\ last'.op \in {"allocate", "copy", "drop", "remove"}
           /\ last'.address.ty # t
           /\ ~OverwritesHolderOf(t))
              => /\ data'[t] = data[t]
                 /\ \A b \in Addresses :
                       (b.ty = t /\ get(data, b) # Absent) => get(data', b) # Absent]_vars

\* a Y entity was freed while an X address is valid and no X index is free
FreedBesideOtherType ==
    /\ last.op = "drop"
    /\ last.address.ty = "Y"
    /\ Triple(last.address) \in freed
    /\ "X" \in DOMAIN data
    /\ data["X"].free_indexes = <<>>
    /\ \E b \in Addresses : b.ty = "X" /\ get(data, b) # Absent

\* C8 as claimed (handle validity): get and get_mut return the entity exactly
\* when the generations are equal and the group is not recorded as torn down.
ValidIffLiveGroup ==
    \A a \in Addresses :
        a.ty \notin deallocated =>
            LET match == Generation(data, a.ty, a.index) = a.generation /\ ~TornDown(a.ty)
            IN  /\ get(data, a) # Absent <=> match
                /\ get_mut(data, a) # Absent <=> match

\* C8 as amended: get and get_mut return the entity exactly when the
\* generations are equal, also when the group is recorded as torn down.
ValidIffGeneration ==
    \A a \in Addresses :
        a.ty \notin deallocated =>
            LET location == data[a.ty].locations[a.index]
                expect == IF location.generation = a.generation
                          THEN Some(location.entity.value) ELSE Absent
            IN  get(data, a) = expect /\ get_mut(data, a) = expect

\* an address of a group that is recorded as torn down still gets its entity
ValidInTornDownGroup ==
    \E a \in Addresses :
        TornDown(a.ty) /\ a.ty \notin deallocated /\ get(data, a) # Absent

\* C9 (automatic drop with clone()): when an address goes out of scope and
\* takes the counter from 1 to 0 the location is freed and every clone that
\* shares the counter gets None; when a clone goes out of scope later (the
\* counter at 0 or below) nothing is freed.
AutomaticDrop ==
    [][last'.op = "drop" =>
          LET a == last'.address
              c == ref_counts[a.ref_count]
          IN  /\ c = 1 => /\ Triple(a) \in freed'
                          /\ \A b \in Addresses' :
                                b.ref_count = a.ref_count =>
                                    get(data', b) = Absent /\ get_mut(data', b) = Absent
              /\ c <= 0 => data' = data /\ freed' = freed]_vars

\* a clone went out of scope after the automatic free and another one is left
CloneDroppedAfterFree ==
    /\ last.op = "drop"
    /\ last.history = "clone"
    /\ last.address \in Addresses
    /\ ref_counts[last.address.ref_count] = -1
    /\ get(data, last.address) = Absent
    /\ Generation(data, last.address.ty, last.address.index) = last.address.generation + 1
    /\ Count(data[last.address.ty].free_indexes, last.address.index) = 1

\* C10 (free on a torn-down group is a no-op): no step changes a generation
\* or the free-index stack of a group that is recorded in freed_groups.
FreeOnTornDownGroup ==
    [][\A t \in DOMAIN data :
          TornDown(t) =>
              /\ data'[t].free_indexes = data[t].free_indexes
              /\ \A i \in 1 .. Len(data[t].locations) :
                    Generation(data', t, i) = Generation(data, t, i)]_vars

\* C11 (allocation policy): allocate appends a location of generation 0
\* exactly when the free-index stack of the type is empty (or the type has no
\* group yet); otherwise it pops the index pushed last, stores the entity
\* there, and leaves the generation of the location and the number of
\* locations as they were.
AllocationPolicy ==
    [][last'.op = "allocate" =>
          LET a == last'.address
              had == a.ty \in DOMAIN data
              stk == IF had THEN data[a.ty].free_indexes ELSE <<>>
              n == IF had THEN Len(data[a.ty].locations) ELSE 0
          IN  /\ data'[a.ty].locations[a.index].entity.value = last'.value
              /\ Generation(data', a.ty, a.index) = a.generation
              /\ IF stk = <<>>
                 THEN /\ a.index = n + 1
                      /\ a.generation = 0
                      /\ Len(data'[a.ty].locations) = n + 1
                 ELSE /\ a.index = stk[Len(stk)]
                      /\ a.generation = Generation(data, a.ty, a.index)
                      /\ Len(data'[a.ty].locations) = n
                      /\ Count(data'[a.ty].free_indexes, a.index) = Count(stk, a.index) - 1]_vars

\* allocate popped one of two free indexes: the other one is still free
PoppedOneOfTwo ==
    /\ last.op = "allocate"
    /\ last.address.generation = 1
    /\ data[last.address.ty].free_indexes # <<>>
    /\ last.address.index \notin Range(data[last.address.ty].free_indexes)

\* C12 (free-stack invariant): every index on a free-index stack belongs to a
\* location whose generation is greater than the generation of every existing
\* address of that index.
FreeStackInvariant ==
    \A t \in DOMAIN data : \A i \in Range(data[t].free_indexes) :
        \A a \in Addresses :
            (a.ty = t /\ a.index = i) => Generation(data, t, i) > a.generation

\* an address exists whose index is on the free stack
StaleOnFreeStack ==
    \E a \in Addresses :
        /\ a.index \in Range(data[a.ty].free_indexes)
        /\ get(data, a) = Absent

\* the step destroys an Address whose counter remove() has set before
DestroysRemoved == last'.op \in {"drop", "field_drop"} /\ last'.history = "remove"

\* C13 as claimed (sentinel after remove()): once remove() has set the
\* counter, no destruction of an address that shares it calls free (the
\* decrement does not give 0) and the counter does not wrap.
SentinelBlocksFree ==
    [][DestroysRemoved =>
          LET c == ref_counts[last'.address.ref_count]
          IN  AddI16(c, -1) # 0 /\ AddI16(c, -1) = c - 1]_vars

\* C13 as amended: remove() sets the counter to -1 and the location is
\* freed; after that no copy() or destruction of an address that shares the
\* counter changes a generation, a free-index stack or the set of freed
\* locations, and each moves the counter by exactly one (a destruction that
\* finds the counter at 1 does call free, which then finds the generations
\* unequal).
SentinelKeepsFreed ==
    [][LET a == last'.address
       IN  /\ last'.op = "remove" =>
                ref_counts'[a.ref_count] = -1 /\ Triple(a) \in freed'
           /\ (last'.history = "remove" /\ last'.op \in {"copy", "drop", "field_drop"}) =>
                /\ freed' = freed
                /\ \A t \in DOMAIN data :
                      /\ data'[t].free_indexes = data[t].free_indexes
                      /\ \A i \in 1 .. Len(data[t].locations) :
                            Generation(data', t, i) = Generation(data, t, i)
                /\ a.ref_count \in DOMAIN ref_counts' =>
                      ref_counts'[a.ref_count] =
                          ref_counts[a.ref_count] + (IF last'.op = "copy" THEN 1 ELSE -1)]_vars

\* after remove() and two copy() a destruction took the counter from 1 to 0
\* and the location is still freed once
ZeroAfterRemove ==
    /\ last.op = "drop"
    /\ last.history = "remove"
    /\ last.address \in Addresses
    /\ ref_counts[last.address.ref_count] = 0
    /\ Generation(data, last.address.ty, last.address.index) = last.address.generation + 1
    /\ Count(data[last.address.ty].free_indexes, last.address.index) = 1

\* C14 (free is idempotent per index and generation): free of an address
\* whose generation differs from the location's changes nothing, so a second
\* free of the same address leaves the state the first one produced.
FreeIdempotent ==
    \A a \in Addresses :
        a.ty \notin deallocated =>
            LET hash == data[a.ty].type_id_hash
                once == free(State, a, hash)
            IN  /\ free(once, a, hash) = once
                /\ get(data, a) = Absent => once = State

\* remove() was called a second time on an address: free ran twice on it
RemovedTwice ==
    /\ last.op = "remove"
    /\ last.history = "remove"
    /\ Generation(data, last.address.ty, last.address.index) = last.address.generation + 1
    /\ Count(data[last.address.ty].free_indexes, last.address.index) = 1

\* C15 (copy() is pure): copy() leaves every location, generation, entity
\* and free-index stack as it was, raises the shared counter by exactly 1 and
\* returns an Address with the index, generation and counter of the original.
CopyIsPure ==
    [][last'.op = "copy" =>
          LET a == last'.address
          IN  /\ data' = data
              /\ freed_groups' = freed_groups
              /\ freed' = freed
              /\ BagIn(a, stack)
              /\ stack' = stack (+) SetToBag({a})
              /\ ref_counts' = [ref_counts EXCEPT ![a.ref_count] = @ + 1]]_vars

\* a valid address was copied: two equal values share a counter of 2
CopiedValid ==
    /\ last.op = "copy"
    /\ CopiesIn(last.address, stack) = 2
    /\ ref_counts[last.address.ref_count] = 2
    /\ get(data, last.address) # Absent

\* C16 (teardown ordering): the step that starts the destruction of a group
\* records its hash in freed_groups and destroys nothing yet; every Address of
\* that same group that is destroyed while the group's entities are destroyed
\* finds the hash recorded, and its free changes nothing.
TeardownOrdering ==
    [][/\ (dropping = NoDrop /\ dropping' # NoDrop) =>
             /\ data' = data
             /\ data[dropping'.ty].type_id_hash \in Range(freed_groups')
       /\ (last'.op = "field_drop" /\ last'.address.ty = dropping.ty) =>
             /\ TornDown(dropping.ty)
             /\ freed' = freed
             /\ data'[dropping.ty].free_indexes = data[dropping.ty].free_indexes
             /\ \A i \in 1 .. Len(data[dropping.ty].locations) :
                   Generation(data', dropping.ty, i) = Generation(data, dropping.ty, i)]_vars

\* the last counted Address of a location was destroyed inside an entity of
\* its own group, and the location was not freed
LastCopyDestroyedInOwnGroup ==
    /\ last.op = "field_drop"
    /\ last.address.ty = dropping.ty
    /\ Clean(last.history)
    /\ last.address.ref_count \notin DOMAIN ref_counts
    /\ Triple(last.address) \notin freed
    /\ get(data, last.address) # Absent

\* C17 (locations are never removed): no step shortens the location sequence
\* of a group or takes a group out of the map, so the index of every address
\* that exists or was ever issued is inside its group's sequence.
LocationsNeverRemoved ==
    [][/\ \A t \in DOMAIN data :
             /\ t \in DOMAIN data'
             /\ Len(data'[t].locations) >= Len(data[t].locations)
       /\ \A tr \in issued' \cup {Triple(a) : a \in Addresses'} :
             /\ tr[1] \in DOMAIN data'
             /\ tr[2] \in 1 .. Len(data'[tr[1]].locations)]_vars

\* the last location of a group was freed and a stale address of it exists
StaleAddressOfLastLocation ==
    \E a \in Addresses :
        /\ Triple(a) \in freed
        /\ a.index = Len(data[a.ty].locations)
        /\ a.index = MaxLocations
        /\ get(data, a) = Absent

\* C18 (no aliasing between allocations): no free-index stack holds an index
\* twice, allocate does not return an index for which an existing address is
\* valid, and two addresses that are valid for the same location share their
\* counter.
NoAliasing ==
    [][/\ \A t \in DOMAIN data' : \A i \in Range(data'[t].free_indexes) :
             Count(data'[t].free_indexes, i) = 1
       /\ last'.op = "allocate" =>
             \A b \in Addresses :
                 (b.ty = last'.address.ty /\ b.index = last'.address.index)
                     => get(data, b) = Absent
       /\ \A a, b \in Addresses' :
             (/\ a.ty = b.ty /\ a.index = b.index
              /\ get(data', a) # Absent /\ get(data', b) # Absent)
                 => a.ref_count = b.ref_count]_vars

\* allocate reused the location of an address that still exists
ReusedBesideStale ==
    /\ last.op = "allocate"
    /\ get(data, last.address) # Absent
    /\ \E b \in Addresses :
          /\ b.ty = last.address.ty /\ b.index = last.address.index
          /\ b.ref_count # last.address.ref_count
          /\ get(data, b) = Absent

\* C19 (stale addresses cannot disturb a reused location): a copy(),
\* destruction or remove() of an address whose location has been reused
\* leaves the generation, the entity and the free-stack membership of the
\* location as they were, and the counter and validity of every address of a
\* later generation.
StaleCannotDisturb ==
    [][LET a == last'.address
       IN  (/\ last'.op \in {"copy", "drop", "remove", "field_drop"}
            /\ <<a.ty, a.index, a.generation + 1>> \in issued)
           => /\ Generation(data', a.ty, a.index) = Generation(data, a.ty, a.index)
              /\ data'[a.ty].locations[a.index].entity.value
                    = data[a.ty].locations[a.index].entity.value
              /\ last'.op # "field_drop" =>
                    data'[a.ty].locations[a.index] = data[a.ty].locations[a.index]
              /\ Count(data'[a.ty].free_indexes, a.index)
                    = Count(data[a.ty].free_indexes, a.index)
              /\ \A b \in Addresses :
                    (b.ty = a.ty /\ b.index = a.index /\ b.generation > a.generation)
                        => /\ b \in Addresses'
                           /\ ref_counts'[b.ref_count] = ref_counts[b.ref_count]
                           /\ get(data', b) = get(data, b)]_vars

\* remove() was called on a stale address and the address of the reused
\* location is valid with its counter at 1
RemovedStaleBesideNew ==
    /\ last.op = "remove"
    /\ \E b \in Addresses :
          /\ b.ty = last.address.ty /\ b.index = last.address.index
          /\ b.generation = last.address.generation + 1
          /\ get(data, b) # Absent
          /\ ref_counts[b.ref_count] = 1

\* the number of Address values that share counter c
Sharers(c) ==
    LET held == {a \in BagToSet(stack) : a.ref_count = c}
    IN  (IF held = {} THEN 0 ELSE CopiesIn(CHOOSE a \in held : TRUE, stack))
        + Cardinality({p \in Places(data) :
                          data[p[1]].locations[p[2]].entity.fields[p[3]].ref_count = c})

\* C20 (counter accuracy): allocate returns an address with a counter of its
\* own at 1, and a counter that only allocate and copy() have touched equals
\* the number of address values that share it.
CounterAccuracy ==
    /\ last.op = "allocate" =>
          /\ ref_counts[last.address.ref_count] = 1
          /\ Sharers(last.address.ref_count) = 1
    /\ \A c \in DOMAIN ref_counts : Clean(history[c]) => ref_counts[c] = Sharers(c)

\* a counter of 2 shared by an address in a variable and one inside an entity
CountedInsideEntity ==
    \E a \in BagToSet(stack) \cap Stored(data) :
        /\ Clean(history[a.ref_count])
        /\ ref_counts[a.ref_count] = 2
        /\ Sharers(a.ref_count) = 2

\* C21 (free does not destroy the entity): a drop or remove() that frees a
\* location pushes its index and raises its generation and changes nothing
\* else: every entity stays where it is, the addresses stored in the entities
\* go on existing with their counters as they were, and no other location is
\* freed.
FreeKeepsEntity ==
    [][LET a == last'.address
       IN  (last'.op \in {"drop", "remove"} /\ Triple(a) \in freed' \ freed)
           => /\ freed' = freed \cup {Triple(a)}
              /\ DOMAIN data' = DOMAIN data
              /\ \A t \in DOMAIN data :
                    /\ Len(data'[t].locations) = Len(data[t].locations)
                    /\ data'[t].free_indexes =
                          IF t = a.ty THEN Append(data[t].free_indexes, a.index)
                          ELSE data[t].free_indexes
                    /\ \A i \in 1 .. Len(data[t].locations) :
                          /\ data'[t].locations[i].entity = data[t].locations[i].entity
                          /\ Generation(data', t, i) =
                                IF t = a.ty /\ i = a.index THEN Generation(data, t, i) + 1
                                ELSE Generation(data, t, i)
              /\ \A b \in Stored(data) :
                    b.ref_count # a.ref_count =>
                        ref_counts'[b.ref_count] = ref_counts[b.ref_count]]_vars

\* a location was freed whose entity holds the only Address of an entity that
\* is still valid
FreedHolderKeepsAddress ==
    /\ last.op \in {"drop", "remove"}
    /\ Triple(last.address) \in freed
    /\ get(data, last.address) = Absent
    /\ \E b \in Range(data[last.address.ty].locations[last.address.index].entity.fields) :
          /\ get(data, b) # Absent
          /\ ref_counts[b.ref_count] = 1
          /\ Sharers(b.ref_count) = 1

\* C22 (counter width): every copy() raises the shared counter by exactly 1
\* and every destruction lowers it by exactly 1, however many copies exist,
\* and the counter is at 1 only when the last copy is destroyed.
CounterWidth ==
    [][LET c == last'.address.ref_count
       IN  /\ last'.op = "copy" => ref_counts'[c] = ref_counts[c] + 1
           /\ (last'.op = "drop" /\ c \in DOMAIN ref_counts') =>
                 ref_counts'[c] = ref_counts[c] - 1
           /\ (last'.op = "drop" /\ ref_counts[c] = 1) => c \notin DOMAIN ref_counts']_vars

====
